---- MODULE Spec2Model ----
(***************************************************************************)
(* Model of src/script.py: one batch run of main() scrapes the storefront, *)
(* normalises the raw product records into two tables, diffs them against  *)
(* the remote table store, notifies the chat recipients and persists.      *)
(*                                                                         *)
(* Tables of the store are sets of rows; pandas DataFrames are sequences   *)
(* of rows (records), in row order.                                        *)
(***************************************************************************)
EXTENDS Integers, Sequences, FiniteSets, TLC

\* ---------------------------------------------------------------- bounds
\* Raw inputs of the normaliser specification: at most MaxRecords raw
\* product records.
MaxRecords == 2

\* Recipients in the chats table.
MaxChats == 2

\* the id the delete of update_product_variant_to_supabase spares
SENTINEL_ID == 99999999

\* pandas' missing value, as produced by a left merge without a match
NaN == -1

BASE_URL == "https://shopdunssweden.se"

\* ------------------------------------------------------------ input sets
ProductIdSet == {1, 2}
TitleSet == {"t1", "t2"}
VariantIdSet == {10, 11}

\* the variant ids one raw record nests, in order
VariantIdLists == {<<10>>, <<11>>, <<10, 11>>, <<11, 10>>}

VariantLists ==
    {[j \in 1..Len(l) |-> [id |-> l[j], title |-> "S", name |-> "n",
                           available |-> a[l[j]]]] :
        l \in VariantIdLists, a \in [VariantIdSet -> BOOLEAN]}

RawProductRecords ==
    [id : ProductIdSet, title : TitleSet, handle : {"h"}, url : {"/products/h"},
     variants : VariantLists]

\* every concatenation of the pages' decoded script tags, pages in order
RawInputs == UNION {[1..k -> RawProductRecords] : k \in 0..MaxRecords}

\* The storefront the batch runs scrape: three products with fixed variants
\* (every product record nests at least one variant).  Between runs the
\* listing changes and variants 10 and 12 sell out and come back; the sizes
\* 11 and 13 stay sold out.  Entry 4 is product 1 as a second category page
\* shows it, under another title.
CatalogId == (1 :> 1) @@ (2 :> 2) @@ (3 :> 3) @@ (4 :> 1)
CatalogVariants == (1 :> <<10, 11>>) @@ (2 :> <<12>>) @@ (3 :> <<13>>) @@ (4 :> <<10, 11>>)
CatalogTitle == (1 :> "Radish") @@ (2 :> "Dungaree") @@ (3 :> "Sun Hat")
                @@ (4 :> "Radish (sale)")
CatalogHandle == (1 :> "radish") @@ (2 :> "dungaree") @@ (3 :> "sun-hat")
                 @@ (4 :> "radish")
CatalogUrl == (1 :> "/products/radish") @@ (2 :> "/products/dungaree")
              @@ (3 :> "/products/sun-hat") @@ (4 :> "/products/radish")
CatalogVariantName ==
    (10 :> "Radish - 56") @@ (11 :> "Radish - 62") @@ (12 :> "Dungaree - 56")
    @@ (13 :> "Sun Hat - S")
RestockableIds == {10, 12}
SoldOutIds == {11, 13}

\* the catalogue entries the pages list, in page order (a product shown on
\* two category pages is listed twice)
Listings == {<<>>, <<1>>, <<1, 2>>, <<1, 2, 3>>, <<1, 4>>}

CatalogRecord(p, avail) ==
    [id |-> CatalogId[p], title |-> CatalogTitle[p], handle |-> CatalogHandle[p],
     url |-> CatalogUrl[p],
     variants |-> [j \in 1..Len(CatalogVariants[p]) |->
                    [id |-> CatalogVariants[p][j], title |-> "S",
                     name |-> CatalogVariantName[CatalogVariants[p][j]],
                     available |-> avail[CatalogVariants[p][j]]]]]

Availabilities ==
    {a @@ [v \in SoldOutIds |-> FALSE] : a \in [RestockableIds -> BOOLEAN]}

Sites == {[i \in 1..Len(l) |-> CatalogRecord(l[i], a)] :
             l \in Listings, a \in Availabilities}

\* the chats table: empty, or MaxChats recipients
ChatTables == {[i \in 1..k |-> 100 * i] : k \in {0, MaxChats}}

\* --------------------------------------------------------- pandas helpers
Range(s) == {s[i] : i \in 1..Len(s)}

RECURSIVE Flatten(_)
\* concatenation of a sequence of sequences (Series.sum() of lists, explode)
Flatten(ss) ==
    IF ss = <<>> THEN <<>>
    ELSE Flatten(SubSeq(ss, 1, Len(ss) - 1)) \o ss[Len(ss)]

RECURSIVE drop_duplicates(_)
\* DataFrame.drop_duplicates(): rows equal in every column collapse, the
\* first occurrence is kept, row order is kept
drop_duplicates(s) ==
    IF s = <<>> THEN <<>>
    ELSE LET init == drop_duplicates(SubSeq(s, 1, Len(s) - 1))
             last == s[Len(s)]
         IN  IF \E i \in 1..Len(init) : init[i] = last THEN init
             ELSE Append(init, last)

RECURSIVE DropDuplicatesByIdKeepLast(_)
\* drop_duplicates(keep="last") on the id column
DropDuplicatesByIdKeepLast(s) ==
    IF s = <<>> THEN <<>>
    ELSE LET rest == DropDuplicatesByIdKeepLast(SubSeq(s, 2, Len(s)))
             first == s[1]
         IN  IF \E i \in 1..Len(rest) : rest[i].id = first.id THEN rest
             ELSE <<first>> \o rest

RECURSIVE DropDuplicatesByIdKeepFirst(_)
\* drop_duplicates() on the id column: the first row of each id is kept
DropDuplicatesByIdKeepFirst(s) ==
    IF s = <<>> THEN <<>>
    ELSE LET init == DropDuplicatesByIdKeepFirst(SubSeq(s, 1, Len(s) - 1))
             last == s[Len(s)]
         IN  IF \E i \in 1..Len(init) : init[i].id = last.id THEN init
             ELSE Append(init, last)

\* drop_duplicates() of the frame whose only column is the variant id (the
\* product_id is its index, which drop_duplicates ignores)
DropDuplicatesById(s) == DropDuplicatesByIdKeepFirst(s)

\* ------------------------------------------------------------ normaliser
ProductRow(r) == [id |-> r.id, title |-> r.title, handle |-> r.handle, url |-> r.url]

ProductDfAll(raw) == [i \in 1..Len(raw) |-> ProductRow(raw[i])]

\* product_df: the four product columns, exact-duplicate rows dropped
ProductDf(raw) == drop_duplicates(ProductDfAll(raw))

\* raw_product_df.rename(id -> product_id).explode("variants")
Exploded(raw) ==
    Flatten([i \in 1..Len(raw) |->
               [j \in 1..Len(raw[i].variants) |->
                  [product_id |-> raw[i].id, id |-> raw[i].variants[j].id]]])

\* product_variant_product_id_df: one (product_id, id) row per variant id
ProductVariantProductIdDf(raw) == DropDuplicatesById(Exploded(raw))

VariantRow(v) == [id |-> v.id, title |-> v.title, name |-> v.name, available |-> v.available]

\* left.merge(right, on="id", how="left") of the variant rows with the
\* (product_id, id) rows: left order, one output row per match, NaN when
\* there is none
MergeProductId(left, right) ==
    Flatten([i \in 1..Len(left) |->
        LET m == SelectSeq(right, LAMBDA r : r.id = left[i].id)
        IN  IF m = <<>>
            THEN <<[id |-> left[i].id, title |-> left[i].title, name |-> left[i].name,
                    available |-> left[i].available, product_id |-> NaN]>>
            ELSE [k \in 1..Len(m) |->
                    [id |-> left[i].id, title |-> left[i].title, name |-> left[i].name,
                     available |-> left[i].available, product_id |-> m[k].product_id]]])

\* product_variant_df
ProductVariantDf(raw) ==
    MergeProductId(
        drop_duplicates(Flatten([i \in 1..Len(raw) |->
            [j \in 1..Len(raw[i].variants) |-> VariantRow(raw[i].variants[j])]])),
        ProductVariantProductIdDf(raw))


\* ------------------------------------------------------------ diff engine
\* product_df.loc[lambda x: x["id"].isin(product_ids)]
NewProductsIsin(df, ids) == SelectSeq(df, LAMBDA r : r.id \in ids)

\* product_df.loc[lambda x: ~x["id"].isin(product_ids)]
NewProducts(df, ids) == SelectSeq(df, LAMBDA r : r.id \notin ids)

\* product_variant_df.loc[lambda x: ~x["id"].isin(ids)]
NewAvailableNoQuery(df, ids) == SelectSeq(df, LAMBDA r : r.id \notin ids)

\* product_variant_df.query("available").loc[lambda x: ~x["id"].isin(ids)]
NewAvailable(df, ids) ==
    SelectSeq(SelectSeq(df, LAMBDA r : r.available), LAMBDA r : r.id \notin ids)

\* select("id") on products
ProductIds(table) == {r.id : r \in table}

\* select("id").eq("available", False) on product_variants
AvailableIdsUnavailable(table) == {r.id : r \in {x \in table : ~x.available}}

\* select("id").eq("available", True) on product_variants
AvailableIds(table) == {r.id : r \in {x \in table : x.available}}

\* --------------------------------------------------------------- notifier
NanText == "nan"

\* new_available.merge(product_df.drop(title).rename(id -> product_id),
\*                      on="product_id", how="left")
WithProductInfo(vdf, pdf) ==
    Flatten([i \in 1..Len(vdf) |->
        LET m == SelectSeq(pdf, LAMBDA p : p.id = vdf[i].product_id)
        IN  IF m = <<>>
            THEN <<[id |-> vdf[i].id, name |-> vdf[i].name, handle |-> NanText,
                    url |-> NanText]>>
            ELSE [k \in 1..Len(m) |->
                    [id |-> vdf[i].id, name |-> vdf[i].name, handle |-> m[k].handle,
                     url |-> m[k].url]]])

\* The rendered text, as its header and its numbered lines; the merged frame
\* has a fresh 0-based index, so line i is numbered i.  (str.strip() leaves
\* the names and urls of the model as they are: none has outer whitespace.)
generate_restock_alert_message(df) ==
    [header |-> "restock",
     lines |-> [i \in 1..Len(df) |->
                  [n |-> i, name |-> df[i].name, url |-> <<BASE_URL, df[i].url>>]]]

\* row['url'].strip() raises AttributeError on a missing url
RestockMessageRaises(df) == \E i \in 1..Len(df) : df[i].url = NanText

\* The new-product text; new_product_df keeps the index of product_df, so a
\* line is numbered by the row's position in product_df.
generate_new_product_alert_message(df, pdf) ==
    [header |-> "new",
     lines |-> [i \in 1..Len(df) |->
                  [n |-> CHOOSE k \in 1..Len(pdf) : pdf[k] = df[i],
                   name |-> df[i].title, url |-> <<BASE_URL, df[i].url>>]]]

\* ------------------------------------------------------------------ state
VARIABLES
    pages,              \* the raw records the category pages carry, in page order
    products,           \* table products of the store
    product_variants,   \* table product_variants of the store
    chats,              \* table chats of the store: its ids, in select order
    pc,                 \* position in main()
    outcome,            \* how the last run ended: none, ok, error, crashed
    raw_product_df,     \* locals of fetch_all_product_data and main
    product_df,
    product_variant_df,
    chat_ids,
    product_ids,
    new_product_df,
    available_product_variant_ids,
    new_available_product_variant_df,
    message,
    sent,               \* this run's send_message_to_chat calls, in order
    inserted,           \* this run's row lists passed to products.insert
    variantsAtStart,    \* product_variants when this run started
    prevCompleted,      \* the run before this one ended ok
    prevAvailable,      \* variant ids available in that run's snapshot
    sameSnapshot        \* it ended ok and this run scraped the same snapshot

store == <<products, product_variants, chats>>
snapshot == <<raw_product_df, product_df, product_variant_df>>
diffs == <<chat_ids, product_ids, new_product_df, available_product_variant_ids,
           new_available_product_variant_df, message>>
logs == <<sent, inserted, variantsAtStart>>
hist == <<prevCompleted, prevAvailable, sameSnapshot>>
vars == <<pages, store, pc, outcome, snapshot, diffs, logs, hist>>

NoMessage == [header |-> "none", lines |-> <<>>]

Locals0 ==
    /\ chat_ids = <<>>
    /\ product_ids = {}
    /\ new_product_df = <<>>
    /\ available_product_variant_ids = {}
    /\ new_available_product_variant_df = <<>>
    /\ message = NoMessage
    /\ sent = <<>>
    /\ inserted = <<>>

\* The store is seeded before the first run: a products table, and a
\* product_variants table that holds some earlier snapshot.
InitProducts == {{}, {ProductRow(CatalogRecord(2, CHOOSE a \in Availabilities : TRUE))}}

InitVariants == {{}} \cup {Range(ProductVariantDf(s)) : s \in Sites}

Init ==
    /\ pages \in Sites
    /\ products \in InitProducts
    /\ product_variants \in InitVariants
    /\ chats \in ChatTables
    /\ pc = "idle"
    /\ outcome = "none"
    /\ raw_product_df = <<>>
    /\ product_df = <<>>
    /\ product_variant_df = <<>>
    /\ Locals0
    /\ variantsAtStart = product_variants
    /\ prevCompleted = FALSE
    /\ prevAvailable = {}
    /\ sameSnapshot = FALSE

InitNorm ==
    /\ pages \in RawInputs
    /\ products = {}
    /\ product_variants = {}
    /\ chats = <<>>
    /\ pc = "idle"
    /\ outcome = "none"
    /\ raw_product_df = <<>>
    /\ product_df = <<>>
    /\ product_variant_df = <<>>
    /\ Locals0
    /\ variantsAtStart = product_variants
    /\ prevCompleted = FALSE
    /\ prevAvailable = {}
    /\ sameSnapshot = FALSE

\* the variant ids a snapshot shows as available
SnapshotAvailable(df) == {df[i].id : i \in {k \in 1..Len(df) : df[k].available}}

\* an uncaught exception ends the run
Raise ==
    /\ pc' = "done"
    /\ outcome' = "error"

\* ---------------------------------------------------------------- actions
\* asyncio.run(main()): a new run starts; the locals of the last run are gone
StartRun ==
    /\ pc \in {"idle", "done"}
    /\ chat_ids' = <<>>
    /\ product_ids' = {}
    /\ new_product_df' = <<>>
    /\ available_product_variant_ids' = {}
    /\ new_available_product_variant_df' = <<>>
    /\ message' = NoMessage
    /\ sent' = <<>>
    /\ inserted' = <<>>
    /\ variantsAtStart' = product_variants
    /\ prevCompleted' = (outcome = "ok")
    /\ prevAvailable' = IF outcome = "ok" THEN SnapshotAvailable(product_variant_df)
                        ELSE {}
    /\ UNCHANGED <<pages, store>>

\* fetch_all_product_data returns the two tables of the snapshot
FetchReturns ==
    /\ StartRun
    /\ pages # <<>>
    /\ raw_product_df' = pages
    /\ product_df' = ProductDf(raw_product_df')
    /\ product_variant_df' = ProductVariantDf(raw_product_df')
    /\ sameSnapshot' = (/\ outcome = "ok"
                        /\ product_df' = product_df
                        /\ product_variant_df' = product_variant_df)
    /\ pc' = "chat_ids"
    /\ UNCHANGED outcome

\* no page carries a script tag: the concatenation has no columns and
\* raw_product_df[PRODUCT_COLUMNS] raises KeyError
FetchKeyError ==
    /\ StartRun
    /\ pages = <<>>
    /\ raw_product_df' = pages
    /\ product_df' = <<>>
    /\ product_variant_df' = <<>>
    /\ sameSnapshot' = FALSE
    /\ Raise

\* client.get raises (no route, timeout): gather re-raises it
FetchRaises ==
    /\ StartRun
    /\ raw_product_df' = <<>>
    /\ product_df' = <<>>
    /\ product_variant_df' = <<>>
    /\ sameSnapshot' = FALSE
    /\ Raise

fetch_all_product_data ==
    \/ FetchReturns
    \/ FetchKeyError
    \/ FetchRaises

\* between two runs the storefront changes what its pages list
SiteChanges ==
    /\ pc \in {"idle", "done"}
    /\ pages' \in Sites \ {pages}
    /\ UNCHANGED <<store, pc, outcome, snapshot, diffs, logs, hist>>

\* a call of the store raises (execute() raises on an error response)
StoreError ==
    /\ pc \in {"chat_ids", "product_ids", "insert", "variant_ids", "delete", "reinsert"}
    /\ Raise
    /\ UNCHANGED <<pages, store, snapshot, diffs, logs, hist>>

\* the process is killed in the middle of a run
Crash ==
    /\ pc \notin {"idle", "done"}
    /\ pc' = "done"
    /\ outcome' = "crashed"
    /\ UNCHANGED <<pages, store, snapshot, diffs, logs, hist>>

get_chat_ids_from_supabase ==
    /\ pc = "chat_ids"
    /\ IF chats = <<>>
       THEN \* df["id"] of a frame without columns: KeyError
            /\ Raise
            /\ UNCHANGED chat_ids
       ELSE /\ chat_ids' = chats
            /\ pc' = "product_ids"
            /\ UNCHANGED outcome
    /\ UNCHANGED <<pages, store, snapshot, product_ids, new_product_df,
                   available_product_variant_ids, new_available_product_variant_df,
                   message, logs, hist>>

\* lines 200-202: the known product ids and the new products
get_product_ids_from_supabase ==
    /\ pc = "product_ids"
    /\ IF products = {}
       THEN /\ Raise
            /\ UNCHANGED <<product_ids, new_product_df>>
       ELSE /\ product_ids' = ProductIds(products)
            /\ new_product_df' = NewProducts(product_df, product_ids')
            /\ pc' = IF new_product_df' # <<>> THEN "insert" ELSE "variant_ids"
            /\ UNCHANGED outcome
    /\ UNCHANGED <<pages, store, snapshot, chat_ids, available_product_variant_ids,
                   new_available_product_variant_df, message, logs, hist>>

insert_product_to_supabase ==
    /\ pc = "insert"
    /\ IF new_product_df = <<>>
       THEN UNCHANGED <<products, inserted>>
       ELSE /\ products' = products \cup Range(new_product_df)
            /\ inserted' = Append(inserted, new_product_df)
    /\ pc' = "variant_ids"
    /\ UNCHANGED <<pages, product_variants, chats, outcome, snapshot, diffs, sent,
                   variantsAtStart, hist>>

\* lines 208-223: the known available variant ids, the newly available
\* variants and the message
get_available_product_variant_ids_from_supabase ==
    /\ pc = "variant_ids"
    /\ IF AvailableIds(product_variants) = {}
       THEN /\ Raise
            /\ UNCHANGED <<available_product_variant_ids,
                           new_available_product_variant_df, message>>
       ELSE /\ available_product_variant_ids' = AvailableIds(product_variants)
            /\ new_available_product_variant_df' =
                   NewAvailable(product_variant_df, available_product_variant_ids')
            /\ LET joined == WithProductInfo(new_available_product_variant_df', product_df)
               IN  IF new_available_product_variant_df' = <<>>
                   THEN /\ pc' = "done"
                        /\ outcome' = "ok"
                        /\ UNCHANGED message
                   ELSE IF RestockMessageRaises(joined)
                   THEN /\ Raise
                        /\ UNCHANGED message
                   ELSE /\ message' = generate_restock_alert_message(joined)
                        /\ pc' = "send"
                        /\ UNCHANGED outcome
    /\ UNCHANGED <<pages, store, snapshot, chat_ids, product_ids, new_product_df, logs, hist>>

\* One pass of the loop of lines 224-225.  client.post either returns (the
\* response, a 200 or an error status, is not looked at) or raises.
send_message_to_chat(result) ==
    /\ pc = "send"
    /\ Len(sent) < Len(chat_ids)
    /\ sent' = Append(sent, [chat_id |-> chat_ids[Len(sent) + 1], text |-> message,
                             result |-> result])
    /\ IF result = "raised"
       THEN Raise
       ELSE /\ pc' = IF Len(sent') = Len(chat_ids) THEN "delete" ELSE "send"
            /\ UNCHANGED outcome
    /\ UNCHANGED <<pages, store, snapshot, diffs, inserted, variantsAtStart, hist>>

\* update_product_variant_to_supabase, line 144: delete every row whose id
\* is not the sentinel
update_product_variant_delete ==
    /\ pc = "delete"
    /\ IF product_variant_df = <<>>
       THEN /\ pc' = "done"
            /\ outcome' = "ok"
            /\ UNCHANGED product_variants
       ELSE /\ product_variants' = {r \in product_variants : r.id = SENTINEL_ID}
            /\ pc' = "reinsert"
            /\ UNCHANGED outcome
    /\ UNCHANGED <<pages, products, chats, snapshot, diffs, logs, hist>>

\* update_product_variant_to_supabase, line 145: insert the snapshot
update_product_variant_insert ==
    /\ pc = "reinsert"
    /\ product_variants' = product_variants \cup Range(product_variant_df)
    /\ pc' = "done"
    /\ outcome' = "ok"
    /\ UNCHANGED <<pages, products, chats, snapshot, diffs, logs, hist>>

MainSteps ==
    \/ StoreError
    \/ Crash
    \/ get_chat_ids_from_supabase
    \/ get_product_ids_from_supabase
    \/ insert_product_to_supabase
    \/ get_available_product_variant_ids_from_supabase
    \/ \E result \in {"ok", "rejected", "raised"} : send_message_to_chat(result)
    \/ update_product_variant_delete
    \/ update_product_variant_insert

Next ==
    \/ SiteChanges
    \/ fetch_all_product_data
    \/ MainSteps

Spec == Init /\ [][Next]_vars

\* the normaliser alone, on every raw input within the bounds
NextNorm == FetchReturns \/ FetchKeyError

SpecNorm == InitNorm /\ [][NextNorm]_vars

\* ----------------------------------------------------------------- claims
RunDone == pc = "done"

Completed == pc = "done" /\ outcome = "ok"

\* the chat ids a message of this run was posted to (attempted)
Attempted == {sent[k].chat_id : k \in 1..Len(sent)}

\* the position of a row in a frame without duplicate rows
RowIndex(df, row) == CHOOSE k \in 1..Len(df) : df[k] = row

\* sub is an order-preserving selection of rows of df, without repetition
OrderedSelection(sub, df) ==
    /\ \A i \in 1..Len(sub) : sub[i] \in Range(df)
    /\ \A i, j \in 1..Len(sub) : i < j => RowIndex(df, sub[i]) < RowIndex(df, sub[j])

\* a restock message listing the variant row v was posted to chat c
RestockPosted(c, v) ==
    \E k \in 1..Len(sent) :
        /\ sent[k].chat_id = c
        /\ sent[k].text.header = "restock"
        /\ \E i \in 1..Len(sent[k].text.lines) : sent[k].text.lines[i].name = v.name

\* C1: when two consecutive runs both complete, every variant that the
\* later snapshot shows available and the earlier snapshot did not show
\* available is listed in a restock message posted to every chat id of the
\* chats table by the later run.
C1_RestockNotified ==
    (Completed /\ prevCompleted) =>
        \A v \in Range(product_variant_df) :
            (v.available /\ v.id \notin prevAvailable) =>
                \A c \in Range(chats) : RestockPosted(c, v)

\* C2: at the end of every run that completes without error on a non-empty
\* snapshot, the product_variants table holds exactly the rows of that
\* run's variant snapshot.
C2_VariantsRefreshed ==
    (Completed /\ product_variant_df # <<>>) =>
        product_variants = Range(product_variant_df)

\* C3: once main() has read the known available variant ids, the newly
\* available variants are exactly the snapshot rows with available = true
\* whose id is not known, in snapshot order; unavailable rows and known
\* available rows are left out.
C3_AvailabilityDiff ==
    available_product_variant_ids # {} =>
        /\ Range(new_available_product_variant_df) =
               {v \in Range(product_variant_df) :
                    v.available /\ v.id \notin available_product_variant_ids}
        /\ OrderedSelection(new_available_product_variant_df, product_variant_df)

C3_Witness ==
    /\ available_product_variant_ids # {}
    /\ new_available_product_variant_df # <<>>
    /\ \E v \in Range(product_variant_df) :
           ~v.available /\ v.id \notin available_product_variant_ids
    /\ \E v \in Range(product_variant_df) :
           v.available /\ v.id \in available_product_variant_ids

\* C4: once main() has read the known product ids, the new products are
\* exactly the snapshot products whose id is not known, in snapshot order;
\* only that selection is ever passed to the insert, nothing is inserted
\* when it is empty, and a completed run has inserted it when it is not.
C4_ProductDiff ==
    /\ product_ids = {} => (new_product_df = <<>> /\ inserted = <<>>)
    /\ product_ids # {} =>
        /\ Range(new_product_df) = {p \in Range(product_df) : p.id \notin product_ids}
        /\ OrderedSelection(new_product_df, product_df)
        /\ inserted \in {<<>>, <<new_product_df>>}
        /\ new_product_df = <<>> => inserted = <<>>
        /\ (Completed /\ new_product_df # <<>>) =>
               (inserted = <<new_product_df>> /\ Range(new_product_df) \subseteq products)

C4_Witness ==
    /\ Completed
    /\ Len(new_product_df) = 2
    /\ inserted = <<new_product_df>>
    /\ \E k \in 1..Len(product_df) :
           /\ product_df[k].id \in product_ids
           /\ RowIndex(product_df, new_product_df[1]) < k
           /\ k < RowIndex(product_df, new_product_df[2])

\* C5: the Products table returned by fetch_all_product_data has at most
\* one row per product id, also when raw records that share an id differ in
\* title, handle or url.
C5_ProductIdUnique ==
    \A i, j \in 1..Len(product_df) :
        product_df[i].id = product_df[j].id => i = j

\* the first raw record that nests a variant of this id
FirstRecordWith(raw, vid) ==
    CHOOSE i \in 1..Len(raw) :
        /\ \E j \in 1..Len(raw[i].variants) : raw[i].variants[j].id = vid
        /\ \A h \in 1..(i - 1) :
               \A j \in 1..Len(raw[h].variants) : raw[h].variants[j].id # vid

\* C6: every row of the returned ProductVariants table has the product_id of
\* some row of the returned Products table, and that product_id is the id
\* of the first raw record in which the row's variant id occurred.
C6_ReferentialIntegrity ==
    \A v \in Range(product_variant_df) :
        /\ \E p \in Range(product_df) : p.id = v.product_id
        /\ v.product_id = raw_product_df[FirstRecordWith(raw_product_df, v.id)].id

C6_Witness ==
    /\ pc = "chat_ids"
    /\ \E h, i \in 1..Len(raw_product_df) :
           /\ h < i
           /\ raw_product_df[h].id # raw_product_df[i].id
           /\ \E j \in 1..Len(raw_product_df[h].variants) :
              \E k \in 1..Len(raw_product_df[i].variants) :
                  /\ raw_product_df[h].variants[j].id = raw_product_df[i].variants[k].id
                  /\ raw_product_df[h].variants[j].available
                       # raw_product_df[i].variants[k].available

\* C7: when the restock message is dispatched and the send to one recipient
\* fails, the send is still attempted for every other recipient (in every
\* run the process is not killed in).
C7_SendFailureIsolated ==
    (/\ RunDone
     /\ outcome # "crashed"
     /\ \E k \in 1..Len(sent) : sent[k].result # "ok") =>
        Attempted = Range(chat_ids)

\* C8: at the end of every run in which the process is not killed, also one
\* in which a call of the store returns an error, the product_variants table
\* is as it was at the start of the run or holds the run's full snapshot.
C8_NoHalfReplacedTable ==
    (RunDone /\ outcome # "crashed") =>
        \/ product_variants = variantsAtStart
        \/ product_variants = Range(product_variant_df)

\* C9: every completed run whose new products are not empty has posted the
\* new-product alert rendered from them to every chat id.
C9_NewProductNotified ==
    (Completed /\ new_product_df # <<>>) =>
        \A c \in Range(chat_ids) :
            \E k \in 1..Len(sent) :
                /\ sent[k].chat_id = c
                /\ sent[k].text = generate_new_product_alert_message(new_product_df,
                                                                      product_df)

\* C10: a run that follows a completed run and scrapes the same snapshot
\* posts no message, passes nothing to the products insert, and never
\* reaches the delete or the insert of the product_variants table.
C10_RerunQuiescent ==
    sameSnapshot =>
        /\ sent = <<>>
        /\ inserted = <<>>
        /\ new_product_df = <<>>
        /\ new_available_product_variant_df = <<>>
        /\ product_variants = variantsAtStart
        /\ pc \notin {"insert", "send", "delete", "reinsert"}

C10_Witness ==
    /\ sameSnapshot
    /\ Completed
    /\ Len(product_df) > 1
    /\ product_variants = Range(product_variant_df)
    /\ SnapshotAvailable(product_variant_df) # {}

====
